---- MODULE Spec2Model ----
(***************************************************************************)
(* A model of syslogipy.py: the duration parser timestring_to_seconds, the *)
(* FileSyslogger and DirSyslogger targets and the run_config scheduler.    *)
(* Strings are sequences of one-character strings, so that the regular     *)
(* expression, startswith/endswith and split are computed, not assumed.    *)
(***************************************************************************)
EXTENDS Integers, Sequences, FiniteSets, TLC

(***************************************************************************)
(* Bounds of the model.                                                    *)
(***************************************************************************)
MaxTsLen == 4     \* longest raw duration string tried
MaxFileLen == 3   \* most bytes ever written to the traced file
MaxClock == 4     \* last value of time.time() explored
MaxCalls == 2     \* the ghost counter of run() calls saturates here
MaxVanish == 1    \* external deletions of directory entries
MaxCreate == 1    \* external creations of directory entries
MaxEntries == 2   \* entries of the directory when the program starts

(***************************************************************************)
(* timestring_to_seconds (src/syslogipy.py:240-250)                        *)
(***************************************************************************)
Digits == {"0", "1", "2", "3", "4", "5", "6", "7", "8", "9"}

DigitVal(c) ==
  CASE c = "0" -> 0 [] c = "1" -> 1 [] c = "2" -> 2 [] c = "3" -> 3
    [] c = "4" -> 4 [] c = "5" -> 5 [] c = "6" -> 6 [] c = "7" -> 7
    [] c = "8" -> 8 [] c = "9" -> 9

\* int(): the value of a string of decimal digits
RECURSIVE int(_)
int(ds) ==
  IF ds = <<>> THEN 0
  ELSE int(SubSeq(ds, 1, Len(ds) - 1)) * 10 + DigitVal(ds[Len(ds)])

\* [0-9]+ is greedy: the length of the run of digits of s that starts at p
RECURSIVE DigitRun(_, _)
DigitRun(s, p) ==
  IF p <= Len(s) /\ s[p] \in Digits THEN 1 + DigitRun(s, p + 1) ELSE 0

\* One optional group ((?P<name>[0-9]+)u)? tried at position p.  The group
\* is taken when a run of digits is followed by the unit letter; otherwise
\* it matches the empty string and groupdict('0') reports it as '0'.
GroupAt(s, p, u) ==
  LET k == DigitRun(s, p) IN
  IF k >= 1 /\ p + k <= Len(s) /\ s[p + k] = u
    THEN [val |-> SubSeq(s, p, p + k - 1), next |-> p + k + 1]
    ELSE [val |-> <<"0">>, next |-> p]

\* the group tried where the one before it stopped (the position is worked
\* out once)
Group(s, p, u) == CHOOSE g \in {GroupAt(s, q, u) : q \in {p}} : TRUE

\* time_re.match(timestring).groupdict('0'): the pattern is anchored at the
\* start only and all five groups are optional, so it matches a (possibly
\* empty) prefix of every string; `end` is where the match stops.
time_re_match(s) ==
  LET y  == Group(s, 1, "y")
      d  == Group(s, y.next, "d")
      h  == Group(s, d.next, "h")
      m  == Group(s, h.next, "m")
      sc == Group(s, m.next, "s")
  IN [matched |-> TRUE, years |-> y.val, days |-> d.val, hours |-> h.val,
      minutes |-> m.val, seconds |-> sc.val, end |-> sc.next - 1]

\* the AttributeError of None.groupdict, turned into ArgumentError
timestring_raises(timestring) ==
  IF time_re_match(timestring).matched THEN "None" ELSE "ArgumentError"

\* a year of 365.25 days and the minutes weighted as hours
timestring_to_seconds_wrong_weights(timestring) ==
  LET m == time_re_match(timestring) IN
  31557600 * int(m.years) + 86400 * int(m.days) + 3600 * int(m.hours)
    + 3600 * int(m.minutes) + int(m.seconds)

timestring_to_seconds(timestring) ==
  LET m == time_re_match(timestring) IN
  31536000 * int(m.years) + 86400 * int(m.days) + 3600 * int(m.hours)
    + 60 * int(m.minutes) + int(m.seconds)

(***************************************************************************)
(* Strings and paths                                                       *)
(***************************************************************************)
NL == "\n"

\* a test of the prefix that never finds it
startswith_never(s, t) == FALSE

startswith(s, t) == Len(t) <= Len(s) /\ SubSeq(s, 1, Len(t)) = t

endswith(s, t) ==
  Len(t) <= Len(s) /\ SubSeq(s, Len(s) - Len(t) + 1, Len(s)) = t

\* str.split(sep) for a one-character separator: "".split(',') is ['']
RECURSIVE split(_, _)
split(s, sep) ==
  LET at == {i \in 1..Len(s) : s[i] = sep} IN
  IF at = {} THEN <<s>>
  ELSE LET i == CHOOSE k \in at : \A j \in at : k <= j
       IN <<SubSeq(s, 1, i - 1)>> \o split(SubSeq(s, i + 1, Len(s)), sep)

LastSlash(path) ==
  LET at == {i \in 1..Len(path) : path[i] = "/"} IN
  IF at = {} THEN 0 ELSE CHOOSE k \in at : \A j \in at : j <= k

dirname(path) == SubSeq(path, 1, LastSlash(path) - 1)

basename(path) == SubSeq(path, LastSlash(path) + 1, Len(path))

\* os.path.normpath(dir + '/' + file); no path of the model has a '..',
\* a '.' component or a doubled slash for normpath to rewrite
fullpath_of(dir, file) == dir \o <<"/">> \o file

\* normpath(dirname(fullpath) + "/_" + basename(fullpath))
newname_of(fullpath) == dirname(fullpath) \o <<"/", "_">> \o basename(fullpath)

(***************************************************************************)
(* The paths of the model                                                  *)
(***************************************************************************)
TheFile == <<"f">>
TheDir == <<"d">>
Nowhere == <<"n">>

ALog == <<"a", ".", "l", "o", "g">>
MarkedALog == <<"_", "a", ".", "l", "o", "g">>
BTxt == <<"b", ".", "t", "x", "t">>
MarkedBTxt == <<"_", "b", ".", "t", "x", "t">>
SubLog == <<"s", ".", "l", "o", "g">>

Names == {ALog, MarkedALog, BTxt, MarkedBTxt, SubLog}

\* the names under which applications write new logs
NewLogs == {ALog, BTxt}

\* what an application writes to a log file of the directory, and what the
\* logs processed before the program started hold
LogText == <<"x", NL>>
OldText == <<"o", NL>>

Bytes == {"a", NL}

FileNode(data, ctime) == [type |-> "file", data |-> data, ctime |-> ctime]

DirNode(ctime) == [type |-> "dir", data |-> <<>>, ctime |-> ctime]

(***************************************************************************)
(* The file system as the program sees it                                  *)
(***************************************************************************)
exists(f, path) == path \in DOMAIN f

isdir(f, path) == path \in DOMAIN f /\ f[path].type = "dir"

isfile(f, path) == path \in DOMAIN f /\ f[path].type = "file"

listdir(f, dir) == {basename(p) : p \in {q \in DOMAIN f : LastSlash(q) > 0 /\ dirname(q) = dir}}

Unlink(f, path) == [p \in DOMAIN f \ {path} |-> f[p]]

\* os.rename replaces an existing destination file; the inode keeps its
\* data and gets a new change time
Rename(f, src, dst, now) ==
  [p \in (DOMAIN f \ {src}) \cup {dst} |->
     IF p = dst THEN [f[src] EXCEPT !.ctime = now] ELSE f[p]]

\* a readline that gives nothing until the line is complete
readline_whole_lines(data, pos) ==
  LET nl == {i \in (pos + 1)..Len(data) : data[i] = NL} IN
  IF nl = {} THEN <<>>
  ELSE SubSeq(data, pos + 1, CHOOSE k \in nl : \A j \in nl : k <= j)

\* file.readline() at offset pos: up to and including the next newline, or
\* what is left of the file
readline(data, pos) ==
  LET nl == {i \in (pos + 1)..Len(data) : data[i] = NL} IN
  IF nl = {} THEN SubSeq(data, pos + 1, Len(data))
  ELSE SubSeq(data, pos + 1, CHOOSE k \in nl : \A j \in nl : k <= j)

\* the loop of __log_file run to the end of the file: every line from pos
RECURSIVE readlines(_, _)
readlines(data, pos) ==
  LET line == readline(data, pos) IN
  IF line = <<>> THEN <<>>
  ELSE <<line>> \o readlines(data, pos + Len(line))

(***************************************************************************)
(* The objects                                                             *)
(***************************************************************************)
Priority == "LOG_INFO|LOG_LOCAL7"

NoOption == <<"<", ">">>

NoError == [type |-> "None", at |-> "none"]

Raise(type, at) == [type |-> type, at |-> at]

\* FileSyslogger.__init__: the mode is stored as given, the file is opened
FileSyslogger(file, mode) ==
  [class |-> "FileSyslogger", file |-> file, mode |-> mode,
   fd |-> [path |-> file, pos |-> 0], p |-> Priority]

\* a constructor that leaves the interval out of sleeptime
DirSyslogger_once(dir, filetypes, interval, backlog) ==
  [class |-> "DirSyslogger", dir |-> dir, filetypes |-> filetypes,
   interval |-> interval, backlog |-> backlog,
   sleeptime |-> 0, lastrun |-> 0]

DirSyslogger(dir, filetypes, interval, backlog) ==
  [class |-> "DirSyslogger", dir |-> dir, filetypes |-> filetypes,
   interval |-> interval, backlog |-> backlog,
   sleeptime |-> timestring_to_seconds(interval), lastrun |-> 0]

\* handle_file's reading of the mode option: 't', 'o' or not a mode
Tr == <<"t">>
Ot == <<"o">>
Dn == <<"x">>
TraceWord == <<"t", "r", "a", "c", "e">>
OneTimeWord == <<"o", "n", "e", "-", "t", "i", "m", "e">>
Bogus == <<"b", "o", "g", "u", "s">>
Invalid == <<"!">>

\* a handle_file that passes the option on as it is written
mode_of_as_written(mode) == mode

mode_of(mode) ==
  IF mode = TraceWord \/ mode = Tr THEN Tr
  ELSE IF mode = OneTimeWord \/ mode = Ot THEN Ot
  ELSE Invalid

\* a run() that forgets to note that one-time logging has occurred
mode_after_run_unmarked(mode) == mode

\* FileSyslogger.run after __log_file: 'o' becomes 'x', 't' stays
mode_after_run(mode) == IF mode = Ot THEN Dn ELSE mode

\* the test of __process_dir whether a directory entry is one to handle
logthis_of(f, filetypes, fullpath, file) ==
  LET bytype == (\E i \in 1..Len(filetypes) : endswith(file, filetypes[i]))
                  \/ Len(filetypes) = 0
  IN IF isdir(f, fullpath) THEN FALSE ELSE bytype

\* an age test that already fires at exactly the backlog
is_old_at_backlog(f, backlog, path, now) ==
  now - f[path].ctime >= timestring_to_seconds(backlog)

\* DirSyslogger.__is_old for a file that exists
is_old(f, backlog, path, now) ==
  now - f[path].ctime > timestring_to_seconds(backlog)

\* the gate of DirSyslogger.run
\* a gate that opens as soon as the interval is reached
interval_passed_at_interval(now, lastrun, sleeptime) == now - lastrun >= sleeptime

interval_passed(now, lastrun, sleeptime) == (now - lastrun) > sleeptime

\* a run() that never notes that it has run once
sleeptime_after_unnoted(sleeptime) == sleeptime

sleeptime_after(sleeptime) == IF sleeptime = 0 THEN -1 ELSE sleeptime

(***************************************************************************)
(* State                                                                   *)
(***************************************************************************)
VARIABLES
  ts,        \* the string given to timestring_to_seconds
  parsed,    \* its outcome
  conf,      \* the sections of the configuration file
  fs,        \* the file system: path -> node
  clock,     \* time.time()
  pc,        \* where run_config is
  sec,       \* the section run_config reads next
  loggers,   \* the list of created Sysloggers
  cur,       \* the logger whose run() is called next or is executing
  err,       \* the exception that was raised
  ident,     \* the ident of the last syslog.openlog
  sink,      \* what syslog.syslog was given, in order
  listing,   \* __process_dir: the result of os.listdir
  todo,      \* __process_dir: the entries still to iterate
  file,      \* __process_dir: the entry being handled
  scans,     \* history: the number of __process_dir calls
  calls,     \* history: run() calls per logger, saturating
  visits,    \* history: what the running __process_dir did with each entry
  eof0,      \* history: the file's length when the current run() began
  vanished,  \* external deletions so far
  created    \* external creations so far

vars == <<ts, parsed, conf, fs, clock, pc, sec, loggers, cur, err, ident,
          sink, listing, todo, file, scans, calls, visits, eof0, vanished,
          created>>

parservars == <<ts, parsed>>

progvars == <<conf, fs, clock, pc, sec, loggers, cur, err, ident, sink,
              listing, todo, file, scans, calls, visits, eof0, vanished,
              created>>

(***************************************************************************)
(* run_config: reading the configuration                                   *)
(***************************************************************************)
Running == pc \in {"loop", "log_file", "process_dir", "rename"}

Alive == pc = "config" \/ Running

Bump(c, i) == [c EXCEPT ![i] = IF c[i] < MaxCalls THEN c[i] + 1 ELSE c[i]]

\* a loop that notes the exception and goes on
Propagate_swallowed(type, at) ==
  /\ pc' = "loop"
  /\ err' = Raise(type, at)

\* the exception leaves run_config: only KeyboardInterrupt is caught
Propagate(type, at) ==
  /\ pc' = "raised"
  /\ err' = Raise(type, at)

\* after a section: the next one, or the scheduler loop
NextSection ==
  /\ sec' = sec + 1
  /\ pc' = IF sec = Len(conf) THEN "loop" ELSE "config"
  /\ err' = err

handle_dir ==
  LET s == conf[sec] IN
  /\ pc = "config"
  /\ isdir(fs, s.path)
  /\ loggers' = Append(loggers,
                       DirSyslogger(s.path, split(s.filetypes, ","),
                                    s.interval, s.backlog))
  /\ calls' = Append(calls, 0)
  /\ NextSection
  /\ UNCHANGED <<parservars, conf, fs, clock, cur, ident, sink, listing,
                 todo, file, scans, visits, eof0, vanished, created>>

handle_file ==
  LET s == conf[sec] IN
  /\ pc = "config"
  /\ ~isdir(fs, s.path)
  /\ isfile(fs, s.path)
  /\ IF s.mode = NoOption \/ mode_of(s.mode) = Invalid
       THEN /\ Propagate("ConfigError", "handle_file")
            /\ UNCHANGED <<loggers, calls, sec>>
       ELSE /\ loggers' = Append(loggers, FileSyslogger(s.path, mode_of(s.mode)))
            /\ calls' = Append(calls, 0)
            /\ NextSection
  /\ UNCHANGED <<parservars, conf, fs, clock, cur, ident, sink, listing,
                 todo, file, scans, visits, eof0, vanished, created>>

not_file_or_dir ==
  LET s == conf[sec] IN
  /\ pc = "config"
  /\ ~isdir(fs, s.path)
  /\ ~isfile(fs, s.path)
  /\ Propagate("ConfigError", "run_config")
  /\ UNCHANGED <<parservars, conf, fs, clock, sec, loggers, cur, ident, sink,
                 listing, todo, file, scans, calls, visits, eof0, vanished,
                 created>>

(***************************************************************************)
(* run_config: the loop  while True: for logger in loggers: logger.run()   *)
(***************************************************************************)
\* run() returned: the for loop goes on, and starts over after the last
\* a scheduler that starts the list again after every run()
next_logger_first(c, n) == 1

\* `for logger in loggers` inside `while True`: the logger after c of n
next_logger(c, n) == IF c < n THEN c + 1 ELSE 1

Return ==
  /\ pc' = "loop"
  /\ cur' = next_logger(cur, Len(loggers))
  /\ err' = err

(***************************************************************************)
(* FileSyslogger.run and __log_file                                        *)
(***************************************************************************)
\* a connection that keeps the ident of the first openlog
openlog_once(opened, newident) == IF opened = <<>> THEN newident ELSE opened

\* the one process-wide syslog connection after syslog.openlog(ident, ...)
openlog(opened, newident) == newident

\* a run() that reads the file whatever the mode
logs_in_any_mode(mode) == TRUE

\* the modes in which run() calls __log_file
logs_in_mode(mode) == mode = Ot \/ mode = Tr

FileRun ==
  LET me == loggers[cur] IN
  /\ pc = "loop"
  /\ Len(loggers) > 0
  /\ me.class = "FileSyslogger"
  /\ ident' = openlog(ident, me.file)
  /\ calls' = Bump(calls, cur)
  /\ IF logs_in_mode(me.mode)
       THEN /\ pc' = "log_file"
            /\ eof0' = Len(fs[me.fd.path].data)
            /\ UNCHANGED <<cur, err>>
       ELSE IF me.mode = Dn
         THEN Return /\ eof0' = eof0
         ELSE Propagate("ArgumentError", "run") /\ UNCHANGED <<cur, eof0>>
  /\ UNCHANGED <<parservars, conf, fs, clock, sec, loggers, sink, listing,
                 todo, file, scans, visits, vanished, created>>

\* one turn of the loop of __log_file; at the end of the file run() goes on
\* to set the mode to 'x' if it was 'o', and returns
LogFileStep ==
  LET me == loggers[cur]
      line == readline(fs[me.fd.path].data, me.fd.pos)
  IN
  /\ pc = "log_file"
  /\ IF line = <<>>
       THEN /\ loggers' = [loggers EXCEPT ![cur].mode = mode_after_run(me.mode)]
            /\ Return
            /\ sink' = sink
       ELSE /\ sink' = Append(sink, [ident |-> ident, priority |-> me.p,
                                     msg |-> line, from |-> me.fd.path])
            /\ loggers' = [loggers EXCEPT ![cur].fd.pos = me.fd.pos + Len(line)]
            /\ UNCHANGED <<pc, cur, err>>
  /\ UNCHANGED <<parservars, conf, fs, clock, sec, ident, listing, todo, file,
                 scans, calls, visits, eof0, vanished, created>>

(***************************************************************************)
(* DirSyslogger.run and __process_dir                                      *)
(***************************************************************************)
Visit(f, act, now) ==
  LET path == fullpath_of(loggers[cur].dir, f) IN
  [file |-> f, act |-> act, now |-> now,
   type |-> IF exists(fs, path) THEN fs[path].type ELSE "none",
   ctime |-> IF exists(fs, path) THEN fs[path].ctime ELSE 0,
   clobber |-> act = "rename" /\ exists(fs, newname_of(path))]

DirRun ==
  LET me == loggers[cur] IN
  /\ pc = "loop"
  /\ Len(loggers) > 0
  /\ me.class = "DirSyslogger"
  /\ calls' = Bump(calls, cur)
  /\ IF me.sleeptime = -1
       THEN /\ Return
            /\ UNCHANGED <<loggers, listing, todo, scans, visits>>
       ELSE IF interval_passed(clock, me.lastrun, me.sleeptime)
         THEN /\ loggers' = [loggers EXCEPT ![cur].lastrun = clock]
              /\ scans' = scans + 1
              /\ IF isdir(fs, me.dir)
                   THEN /\ listing' = listdir(fs, me.dir)
                        /\ todo' = listdir(fs, me.dir)
                        /\ visits' = {}
                        /\ pc' = "process_dir"
                        /\ UNCHANGED <<cur, err>>
                   ELSE /\ Propagate("OSError", "listdir")
                        /\ UNCHANGED <<cur, listing, todo, visits>>
         ELSE /\ loggers' = [loggers EXCEPT
                   ![cur].sleeptime = sleeptime_after(me.sleeptime)]
              /\ Return
              /\ UNCHANGED <<listing, todo, scans, visits>>
  /\ UNCHANGED <<parservars, conf, fs, clock, sec, ident, sink, file, eof0,
                 vanished, created>>

\* one turn of the for loop of __process_dir up to the os.rename, for any
\* entry of the listing not yet iterated (os.listdir has no order)
ProcessEntry(f) ==
  LET me == loggers[cur]
      fullpath == fullpath_of(me.dir, f)
      t == FileSyslogger(fullpath, Ot)
  IN
  /\ pc = "process_dir"
  /\ f \in todo
  /\ IF ~logthis_of(fs, me.filetypes, fullpath, f)
       THEN /\ todo' = todo \ {f}
            /\ visits' = visits \cup {Visit(f, "skip", clock)}
            /\ UNCHANGED <<fs, pc, err, ident, sink, file>>
       ELSE IF startswith(f, <<"_">>)
         THEN IF ~exists(fs, fullpath)
                THEN /\ Propagate("OSError", "getctime")
                     /\ visits' = visits \cup {Visit(f, "fail", clock)}
                     /\ UNCHANGED <<fs, todo, ident, sink, file>>
                ELSE /\ IF is_old(fs, me.backlog, fullpath, clock)
                          THEN /\ fs' = Unlink(fs, fullpath)
                               /\ visits' = visits \cup {Visit(f, "remove", clock)}
                          ELSE /\ fs' = fs
                               /\ visits' = visits \cup {Visit(f, "keep", clock)}
                     /\ todo' = todo \ {f}
                     /\ UNCHANGED <<pc, err, ident, sink, file>>
         ELSE IF ~exists(fs, fullpath)
                THEN /\ Propagate("IOError", "open")
                     /\ visits' = visits \cup {Visit(f, "fail", clock)}
                     /\ UNCHANGED <<fs, todo, ident, sink, file>>
                ELSE /\ ident' = openlog(ident, t.file)
                     /\ sink' = sink \o
                          [i \in 1..Len(readlines(fs[fullpath].data, 0)) |->
                             [ident |-> openlog(ident, t.file), priority |-> t.p,
                              msg |-> readlines(fs[fullpath].data, 0)[i],
                              from |-> t.fd.path]]
                     /\ visits' = visits \cup {Visit(f, "forward", clock)}
                     /\ file' = f
                     /\ pc' = "rename"
                     /\ UNCHANGED <<fs, todo, err>>
  /\ UNCHANGED <<parservars, conf, clock, sec, loggers, cur, listing, scans,
                 calls, eof0, vanished, created>>

\* os.rename(fullpath, newname) of the entry that was just logged
RenameStep ==
  LET me == loggers[cur]
      fullpath == fullpath_of(me.dir, file)
      newname == newname_of(fullpath)
  IN
  /\ pc = "rename"
  /\ IF ~exists(fs, fullpath) \/ isdir(fs, newname)
       THEN /\ Propagate("OSError", "rename")
            /\ visits' = visits \cup {Visit(file, "fail", clock)}
            /\ UNCHANGED <<fs, todo>>
       ELSE /\ fs' = Rename(fs, fullpath, newname, clock)
            /\ visits' = visits \cup {Visit(file, "rename", clock)}
            /\ todo' = todo \ {file}
            /\ pc' = "process_dir"
            /\ err' = err
  /\ UNCHANGED <<parservars, conf, clock, sec, loggers, cur, ident, sink,
                 listing, file, scans, calls, eof0, vanished, created>>

\* the for loop of __process_dir is over: its locals are gone and run()
\* finishes
ProcessDone ==
  LET me == loggers[cur] IN
  /\ pc = "process_dir"
  /\ todo = {}
  /\ loggers' = [loggers EXCEPT ![cur].sleeptime = sleeptime_after(me.sleeptime)]
  /\ Return
  /\ listing' = {}
  /\ file' = <<>>
  /\ visits' = {}
  /\ UNCHANGED <<parservars, conf, fs, clock, sec, ident, sink, todo, scans,
                 calls, eof0, vanished, created>>

(***************************************************************************)
(* The environment: writers, the clock, other processes, the user          *)
(***************************************************************************)
\* the application appends to the traced file
AppendByte(b) ==
  /\ Alive
  /\ isfile(fs, TheFile)
  /\ Len(fs[TheFile].data) < MaxFileLen
  /\ fs' = [fs EXCEPT ![TheFile].data = Append(@, b)]
  /\ UNCHANGED <<parservars, conf, clock, pc, sec, loggers, cur, err, ident,
                 sink, listing, todo, file, scans, calls, visits, eof0,
                 vanished, created>>

\* a second passes; a run() takes far less, so it passes between two run()s
Tick ==
  /\ pc \in {"config", "loop"}
  /\ clock < MaxClock
  /\ clock' = clock + 1
  /\ UNCHANGED <<parservars, conf, fs, pc, sec, loggers, cur, err, ident,
                 sink, listing, todo, file, scans, calls, visits, eof0,
                 vanished, created>>

\* another process deletes an entry of the directory that a scan has listed
\* and not yet come to (any other deletion only makes for another directory)
Vanish(f) ==
  /\ pc \in {"process_dir", "rename"}
  /\ vanished < MaxVanish
  /\ f \in todo
  /\ exists(fs, fullpath_of(TheDir, f))
  /\ fs' = Unlink(fs, fullpath_of(TheDir, f))
  /\ vanished' = vanished + 1
  /\ UNCHANGED <<parservars, conf, clock, pc, sec, loggers, cur, err, ident,
                 sink, listing, todo, file, scans, calls, visits, eof0,
                 created>>

\* an application writes a new log file into the directory; a file written
\* during a scan is not in its listing, so it is written between two run()s
Create(f) ==
  /\ pc = "loop"
  /\ created < MaxCreate
  /\ isdir(fs, TheDir)
  /\ f \in NewLogs
  /\ ~exists(fs, fullpath_of(TheDir, f))
  /\ fs' = (fullpath_of(TheDir, f) :> FileNode(LogText, clock)) @@ fs
  /\ created' = created + 1
  /\ UNCHANGED <<parservars, conf, clock, pc, sec, loggers, cur, err, ident,
                 sink, listing, todo, file, scans, calls, visits, eof0,
                 vanished>>

\* the directory is removed with all it holds, between two run()s
RemoveDir ==
  /\ pc = "loop"
  /\ isdir(fs, TheDir)
  /\ fs' = [p \in {q \in DOMAIN fs : q # TheDir /\ dirname(q) # TheDir} |-> fs[p]]
  /\ UNCHANGED <<parservars, conf, clock, pc, sec, loggers, cur, err, ident,
                 sink, listing, todo, file, scans, calls, visits, eof0,
                 vanished, created>>

\* SIGINT: KeyboardInterrupt is raised wherever the program is; run_config
\* catches it around the loop only
Interrupt ==
  /\ Alive
  /\ IF Running
       THEN pc' = "exit" /\ err' = Raise("KeyboardInterrupt", "caught")
       ELSE Propagate("KeyboardInterrupt", "run_config")
  /\ UNCHANGED <<parservars, conf, fs, clock, sec, loggers, cur, ident, sink,
                 listing, todo, file, scans, calls, visits, eof0, vanished,
                 created>>

(***************************************************************************)
(* Configurations and initial states                                       *)
(***************************************************************************)
ModeTokens == {Tr, TraceWord, Ot, OneTimeWord, Dn, Bogus, NoOption}

FiletypesOptions == {<<>>, <<"l", "o", "g">>}

IntervalOptions == {<<"0">>, <<"1", "s">>}

BacklogOptions == {<<"1", "s">>}

FileSection(path, mode) ==
  [path |-> path, mode |-> mode, filetypes |-> <<>>, interval |-> <<"0">>,
   backlog |-> <<"7", "d">>]

DirSection(path, filetypes, interval, backlog) ==
  [path |-> path, mode |-> NoOption, filetypes |-> filetypes,
   interval |-> interval, backlog |-> backlog]

FileConfs ==
  {<<FileSection(TheFile, m)>> : m \in ModeTokens}
    \cup {<<FileSection(Nowhere, Tr)>>}

DirConfs ==
  {<<DirSection(TheDir, ft, iv, bl)>> :
     ft \in FiletypesOptions, iv \in IntervalOptions, bl \in BacklogOptions}

\* the traced file, empty at first
FileFS == (TheFile :> FileNode(<<>>, 0))

\* the directory with any of the entries, all last changed one second before
\* the program starts; s.log is a subdirectory
DirFS(names) ==
  [p \in {TheDir} \cup {fullpath_of(TheDir, n) : n \in names} |->
     IF p = TheDir \/ p = fullpath_of(TheDir, SubLog) THEN DirNode(1)
     ELSE IF startswith(basename(p), <<"_">>) THEN FileNode(OldText, 1)
     ELSE FileNode(LogText, 1)]

NotParsed == [done |-> FALSE, val |-> 0, raised |-> "None"]

ProgInit(confs, filesystems) ==
  /\ conf \in confs
  /\ fs \in filesystems
  /\ clock = 2
  /\ pc = "config"
  /\ sec = 1
  /\ loggers = <<>>
  /\ cur = 1
  /\ err = NoError
  /\ ident = <<>>
  /\ sink = <<>>
  /\ listing = {}
  /\ todo = {}
  /\ file = <<>>
  /\ scans = 0
  /\ calls = <<>>
  /\ visits = {}
  /\ eof0 = 0
  /\ vanished = 0
  /\ created = 0

InitFile ==
  /\ ts = <<>>
  /\ parsed = NotParsed
  /\ ProgInit(FileConfs, {FileFS})

NextFile ==
  \/ handle_file
  \/ not_file_or_dir
  \/ FileRun
  \/ LogFileStep
  \/ \E b \in Bytes : AppendByte(b)
  \/ Interrupt

SpecFile == InitFile /\ [][NextFile]_vars

\* the interpreter goes on executing the loop of __log_file
SpecFileFair == SpecFile /\ WF_vars(LogFileStep)

InitDir ==
  /\ ts = <<>>
  /\ parsed = NotParsed
  /\ ProgInit(DirConfs,
              {DirFS(ns) : ns \in {x \in SUBSET Names : Cardinality(x) <= MaxEntries}})

NextDir ==
  \/ handle_dir
  \/ DirRun
  \/ \E f \in Names : ProcessEntry(f)
  \/ RenameStep
  \/ ProcessDone
  \/ Tick
  \/ \E f \in Names : Vanish(f)
  \/ \E f \in Names : Create(f)
  \/ RemoveDir
  \/ Interrupt

SpecDir == InitDir /\ [][NextDir]_vars

\* the directory target left to itself: no run() fails and nobody stops
\* the loop; applications write new logs, the clock goes on and the
\* interpreter goes on executing
InitLive ==
  /\ ts = <<>>
  /\ parsed = NotParsed
  /\ ProgInit(DirConfs, {DirFS(ns) : ns \in SUBSET NewLogs})

NextLive ==
  \/ handle_dir
  \/ DirRun
  \/ \E f \in Names : ProcessEntry(f)
  \/ RenameStep
  \/ ProcessDone
  \/ Tick
  \/ \E f \in Names : Create(f)

SpecLive ==
  /\ InitLive
  /\ [][NextLive]_vars
  /\ WF_vars(handle_dir)
  /\ WF_vars(DirRun)
  /\ WF_vars(\E f \in Names : ProcessEntry(f))
  /\ WF_vars(RenameStep)
  /\ WF_vars(ProcessDone)
  /\ WF_vars(Tick)

\* the traced file with a line and a half written to it
WrittenFS == (TheFile :> FileNode(<<"a", NL, "a">>, 0))

\* a file target and a directory target together, in either order
BothConfs ==
  UNION {{<<FileSection(TheFile, m), DirSection(TheDir, <<"l", "o", "g">>, iv, <<"1", "s">>)>>,
          <<DirSection(TheDir, <<"l", "o", "g">>, iv, <<"1", "s">>), FileSection(TheFile, m)>>} :
           m \in {Tr, Ot}, iv \in IntervalOptions}

Init ==
  /\ ts = <<>>
  /\ parsed = NotParsed
  /\ ProgInit(BothConfs, {WrittenFS @@ DirFS({ALog, MarkedBTxt})})

Next ==
  \/ handle_file
  \/ handle_dir
  \/ FileRun
  \/ LogFileStep
  \/ DirRun
  \/ \E f \in Names : ProcessEntry(f)
  \/ RenameStep
  \/ ProcessDone
  \/ Tick
  \/ \E f \in Names : Vanish(f)
  \/ RemoveDir
  \/ Interrupt

Spec == Init /\ [][Next]_vars

(***************************************************************************)
(* timestring_to_seconds on its own                                        *)
(***************************************************************************)
\* raw strings: digits, units, and a letter that is no unit
TsAlphabet == {"0", "1", "5", "d", "m", "s", "x"}

RawStrings == UNION {[1..n -> TsAlphabet] : n \in 0..MaxTsLen}

\* durations as the documentation writes them: each component a number or
\* left out (Absent)
Absent == -1

Components ==
  [y : {Absent, 1, 2}, d : {Absent, 2, 10}, h : {Absent, 0, 3},
   m : {Absent, 5, 30}, s : {Absent, 7, 30}]

DigitChar(n) ==
  CASE n = 0 -> "0" [] n = 1 -> "1" [] n = 2 -> "2" [] n = 3 -> "3"
    [] n = 4 -> "4" [] n = 5 -> "5" [] n = 6 -> "6" [] n = 7 -> "7"
    [] n = 8 -> "8" [] n = 9 -> "9"

RECURSIVE Decimal(_)
Decimal(n) ==
  IF n < 10 THEN <<DigitChar(n)>>
  ELSE Decimal(n \div 10) \o <<DigitChar(n % 10)>>

Component(n, u) == IF n = Absent THEN <<>> ELSE Decimal(n) \o <<u>>

Written(c) ==
  Component(c.y, "y") \o Component(c.d, "d") \o Component(c.h, "h")
    \o Component(c.m, "m") \o Component(c.s, "s")

Amount(n) == IF n = Absent THEN 0 ELSE n

Weighted(c) ==
  31536000 * Amount(c.y) + 86400 * Amount(c.d) + 3600 * Amount(c.h)
    + 60 * Amount(c.m) + Amount(c.s)

DurationTable == {<<Written(c), Weighted(c)>> : c \in Components}

InitTs ==
  /\ ts \in RawStrings \cup {e[1] : e \in DurationTable}
  /\ parsed = NotParsed
  /\ conf = <<>>
  /\ fs = <<>>
  /\ clock = 1
  /\ pc = "off"
  /\ sec = 1
  /\ loggers = <<>>
  /\ cur = 1
  /\ err = NoError
  /\ ident = <<>>
  /\ sink = <<>>
  /\ listing = {}
  /\ todo = {}
  /\ file = <<>>
  /\ scans = 0
  /\ calls = <<>>
  /\ visits = {}
  /\ eof0 = 0
  /\ vanished = 0
  /\ created = 0

Parse ==
  /\ pc = "off"
  /\ ~parsed.done
  /\ parsed' = [done |-> TRUE,
                val |-> IF timestring_raises(ts) = "None"
                          THEN timestring_to_seconds(ts) ELSE 0,
                raised |-> timestring_raises(ts)]
  /\ UNCHANGED <<ts, progvars>>

NextTs == Parse

SpecTs == InitTs /\ [][NextTs]_vars

(***************************************************************************)
(* C10: for every duration string written as optional components           *)
(* <n>y <n>d <n>h <n>m <n>s in that order, timestring_to_seconds returns   *)
(* 31536000*y + 86400*d + 3600*h + 60*m + s with the omitted components    *)
(* counted as 0; "" gives 0, "5m30s" 330, "1y" 31536000 and "2d3h"         *)
(* 2*86400 + 3*3600.                                                       *)
(***************************************************************************)
C10_WeightedSum ==
  parsed.done =>
    /\ \A e \in DurationTable :
         ts = e[1] => parsed.raised = "None" /\ parsed.val = e[2]
    /\ ts = <<>> => parsed.val = 0
    /\ ts = <<"5", "m", "3", "0", "s">> => parsed.val = 330
    /\ ts = <<"1", "y">> => parsed.val = 31536000
    /\ ts = <<"2", "d", "3", "h">> => parsed.val = 2 * 86400 + 3 * 3600

C10_Witness ==
  /\ parsed.done
  /\ ts = <<"2", "y", "1", "0", "d", "3", "h", "5", "m", "3", "0", "s">>
  /\ parsed.val = 2 * 31536000 + 10 * 86400 + 3 * 3600 + 5 * 60 + 30

(***************************************************************************)
(* What the claims speak of                                                *)
(***************************************************************************)
RECURSIVE Flatten(_)
Flatten(ss) == IF ss = <<>> THEN <<>> ELSE Head(ss) \o Flatten(Tail(ss))

HasIdent(id, e) == e.ident = id

\* the bytes handed to syslog under an ident, in order
SentUnder(id, snk) ==
  LET under == SelectSeq(snk, LAMBDA e : HasIdent(id, e)) IN
  Flatten([i \in 1..Len(under) |-> under[i].msg])

Configured == pc \notin {"config", "off", "raised"} \/ (pc = "raised" /\ sec > Len(conf))

FileTargets(tokens) ==
  {i \in 1..Len(loggers) :
     loggers[i].class = "FileSyslogger" /\ conf[i].mode \in tokens}

OneTimeTargets == FileTargets({Ot, OneTimeWord})

TraceTargets == FileTargets({Tr, TraceWord})

(***************************************************************************)
(* C1: a FileSyslogger created in one-time mode forwards what the file     *)
(* holds at its first run() exactly once: the first run() forwards it and  *)
(* leaves the mode 'x', and every later run() forwards nothing, whatever   *)
(* is appended to the file in between.                                     *)
(***************************************************************************)
C1_FirstRun ==
  \A i \in OneTimeTargets :
    LET me == loggers[i]
        data == fs[me.fd.path].data
    IN /\ me.mode \in {Ot, Dn}
       /\ SentUnder(me.file, sink) = SubSeq(data, 1, me.fd.pos)
       /\ me.mode = Ot => calls[i] = 0 \/ (cur = i /\ pc \in {"log_file", "exit"})
       /\ me.mode = Dn => calls[i] >= 1 /\ me.fd.pos >= eof0

C1_LaterRuns ==
  \A i \in OneTimeTargets :
    loggers[i].mode = Dn =>
      /\ loggers'[i] = loggers[i]
      /\ SentUnder(loggers[i].file, sink') = SentUnder(loggers[i].file, sink)

C1_OneTimeOnce == []C1_FirstRun /\ [][C1_LaterRuns]_vars

C1_Witness ==
  /\ pc = "loop"
  /\ OneTimeTargets = {1}
  /\ loggers[1].mode = Dn
  /\ calls[1] >= 2
  /\ loggers[1].fd.pos = 2
  /\ Len(sink) = 2
  /\ Len(fs[TheFile].data) = 3

(***************************************************************************)
(* C2: for a FileSyslogger in trace mode, whatever the interleaving of     *)
(* appends and run() calls, what has been forwarded is always the file up  *)
(* to the cursor, byte for byte (nothing twice, nothing skipped), the      *)
(* cursor never moves back, and a run() returns only with the cursor at    *)
(* the end of the file, so that each run() forwards exactly what was       *)
(* appended since the previous one.                                        *)
(***************************************************************************)
C2_Prefix ==
  \A i \in TraceTargets :
    LET me == loggers[i]
        data == fs[me.fd.path].data
    IN /\ me.mode = Tr
       /\ me.fd.pos <= Len(data)
       /\ SentUnder(me.file, sink) = SubSeq(data, 1, me.fd.pos)

C2_Cursor ==
  \A i \in TraceTargets :
    /\ loggers'[i].fd.pos >= loggers[i].fd.pos
    /\ (cur = i /\ pc = "log_file" /\ pc' = "loop") =>
         loggers'[i].fd.pos = Len(fs'[loggers[i].fd.path].data)

C2_TraceExact == []C2_Prefix /\ [][C2_Cursor]_vars

C2_Witness ==
  /\ pc = "loop"
  /\ TraceTargets = {1}
  /\ calls[1] >= 2
  /\ Len(sink) = 3
  /\ sink[1].msg = <<"a">>
  /\ sink[2].msg = <<NL>>
  /\ loggers[1].fd.pos = 3

(***************************************************************************)
(* C3: a DirSyslogger whose interval is 0 scans exactly once: its first    *)
(* run() scans, the run() leaves sleeptime at -1, and every later run()    *)
(* returns without scanning, logging or entering __process_dir.            *)
(***************************************************************************)
ZeroIntervalTargets ==
  {i \in 1..Len(loggers) :
     loggers[i].class = "DirSyslogger" /\ conf[i].interval = <<"0">>}

C3_OneScan ==
  \A i \in ZeroIntervalTargets :
    /\ scans <= 1
    /\ calls[i] >= 1 => scans = 1
    /\ loggers[i].sleeptime = -1 => scans = 1 /\ calls[i] >= 1
    /\ (calls[i] >= 1 /\ pc = "loop") => loggers[i].sleeptime = -1

C3_Disabled ==
  \A i \in ZeroIntervalTargets :
    loggers[i].sleeptime = -1 =>
      /\ loggers'[i] = loggers[i]
      /\ pc' \in {"loop", "exit"}
      /\ UNCHANGED <<scans, visits, sink, ident, listing, todo>>

C3_ZeroIntervalOnce == []C3_OneScan /\ [][C3_Disabled]_vars

C3_Witness ==
  /\ pc = "loop"
  /\ ZeroIntervalTargets = {1}
  /\ loggers[1].sleeptime = -1
  /\ calls[1] >= 2
  /\ scans = 1
  /\ Len(sink) >= 1
  /\ isfile(fs, fullpath_of(TheDir, ALog))
  /\ fs[fullpath_of(TheDir, ALog)].ctime > loggers[1].lastrun

(***************************************************************************)
(* C4 as amended: when a scan comes to a marked (`_`-prefixed) file, it    *)
(* deletes it if and only if the name matches the suffix filter and        *)
(* now - changeTime > backlogSeconds; a marked file whose name ends with   *)
(* none of the configured suffixes is never deleted, however old.          *)
(***************************************************************************)
Matches(filetypes, name) ==
  Len(filetypes) = 0 \/ \E i \in 1..Len(filetypes) : endswith(name, filetypes[i])

Marked(name) == Len(name) > 0 /\ name[1] = "_"

BacklogSeconds(me) == timestring_to_seconds(me.backlog)

\* the step of __process_dir that is done with entry f
Handles(f) == pc = "process_dir" /\ f \in todo /\ f \notin todo'

C4_DeletesMatchingOld ==
  \A f \in Names :
    LET me == loggers[cur]
        path == fullpath_of(me.dir, f)
    IN (Handles(f) /\ Marked(f) /\ isfile(fs, path)) =>
         (~exists(fs', path) <=>
            (Matches(me.filetypes, f) /\ clock - fs[path].ctime > BacklogSeconds(me)))

C4_MarkedDeletion == [][C4_DeletesMatchingOld]_vars

\* C4 as claimed: deletion is decided by the age alone, whatever the filetypes
C4_DeletesOld ==
  \A f \in Names :
    LET me == loggers[cur]
        path == fullpath_of(me.dir, f)
    IN (Handles(f) /\ Marked(f) /\ isfile(fs, path)) =>
         (~exists(fs', path) <=> clock - fs[path].ctime > BacklogSeconds(me))

C4_AgeAlone == [][C4_DeletesOld]_vars

C4_Witness ==
  /\ pc = "process_dir"
  /\ \E v \in visits :
       /\ v.file = MarkedBTxt /\ v.act = "skip" /\ v.type = "file"
       /\ v.now - v.ctime > 1
  /\ \E v \in visits :
       /\ v.file = MarkedALog /\ v.act = "remove"
       /\ v.now - v.ctime > 1
  /\ isfile(fs, fullpath_of(TheDir, MarkedBTxt))
  /\ ~exists(fs, fullpath_of(TheDir, MarkedALog))

(***************************************************************************)
(* C5 as claimed: in one scan an entry is forwarded if and only if it is   *)
(* not a directory, is unmarked and matches the suffix filter, and every   *)
(* such entry of the listing is forwarded through a one-time FileSyslogger *)
(* and then renamed to `_` + its name.                                     *)
(***************************************************************************)
TheDirLogger ==
  loggers[CHOOSE i \in 1..Len(loggers) : loggers[i].class = "DirSyslogger"]

ScanReturns == pc = "process_dir" /\ todo = {}

ScanRaised == pc = "raised" /\ err.at \in {"open", "getctime", "rename"}

\* the scan is over, by a return or by an exception
ScanOver == ScanReturns \/ ScanRaised

Eligible(type, name) ==
  type = "file" /\ ~Marked(name) /\ Matches(TheDirLogger.filetypes, name)

TypeNow(name) ==
  LET path == fullpath_of(TheDirLogger.dir, name) IN
  IF exists(fs, path) THEN fs[path].type ELSE "none"

C5_ForwardedOnlyIfEligible ==
  \A v \in visits : v.act = "forward" => Eligible(v.type, v.file)

C5_ForwardsEveryEligible ==
  ScanOver =>
    /\ C5_ForwardedOnlyIfEligible
    /\ \A v \in visits :
         v.act \in {"skip", "keep", "remove"} => ~Eligible(v.type, v.file)
    /\ \A n \in todo : ~Eligible(TypeNow(n), n)
    /\ \A v \in visits :
         v.act = "forward" => \E w \in visits : w.file = v.file /\ w.act = "rename"

\* what remains true of C5: of the scans that return
C5_WhenScanReturns == ScanReturns => C5_ForwardsEveryEligible

(***************************************************************************)
(* C6 as claimed: a scan leaves untouched every directory, every unmarked  *)
(* file that does not match the suffix filter and every marked file that   *)
(* is not older than the backlog.                                          *)
(***************************************************************************)
\* a step of __process_dir, as opposed to one of the environment
ScanStep ==
  /\ pc \in {"process_dir", "rename"}
  /\ todo' # todo \/ visits' # visits \/ pc' \notin {pc, "exit"}

Protected(path) ==
  LET me == loggers[cur]
      name == basename(path)
  IN \/ fs[path].type = "dir"
     \/ ~Marked(name) /\ ~Matches(me.filetypes, name)
     \/ Marked(name) /\ ~(clock - fs[path].ctime > BacklogSeconds(me))

C6_Untouched ==
  ScanStep =>
    \A path \in DOMAIN fs :
      (LastSlash(path) > 0 /\ dirname(path) = loggers[cur].dir /\ Protected(path)) =>
        (exists(fs', path) /\ fs'[path] = fs[path])

C6_ScanLeavesUntouched == [][C6_Untouched]_vars

\* what remains true of C6: the entries the scan is not renaming onto
C6_UntouchedButClobbered ==
  ScanStep =>
    \A path \in DOMAIN fs :
      (/\ LastSlash(path) > 0 /\ dirname(path) = loggers[cur].dir
       /\ Protected(path)
       /\ ~(pc = "rename" /\ path = newname_of(fullpath_of(loggers[cur].dir, file)))) =>
        (exists(fs', path) /\ fs'[path] = fs[path])

C6_Remains == [][C6_UntouchedButClobbered]_vars

(***************************************************************************)
(* C7 as claimed: a failure to forward, rename or delete one entry is      *)
(* confined to that entry; it never ends the scan, run() or the loop.      *)
(***************************************************************************)
EntryFailure == err.at \in {"open", "getctime", "rename"}

C7_FailureConfined == ~(pc = "raised" /\ EntryFailure)

(***************************************************************************)
(* C8: if the directory cannot be listed when a scan starts, the error     *)
(* leaves DirSyslogger.run and the loop of run_config: from then on no     *)
(* run() is called on any logger.                                          *)
(***************************************************************************)
ListingFailed == err.at = "listdir"

C8_Raised == ListingFailed => pc = "raised" /\ err.type = "OSError"

C8_NothingRuns ==
  ListingFailed =>
    UNCHANGED <<pc, cur, loggers, calls, scans, sink, ident, visits, todo>>

C8_ListdirStopsLoop == []C8_Raised /\ [][C8_NothingRuns]_vars

C8_Witness ==
  /\ pc = "raised"
  /\ err = Raise("OSError", "listdir")
  /\ Len(loggers) = 2
  /\ loggers[1].class = "DirSyslogger"
  /\ cur = 1
  /\ scans = 2
  /\ loggers[2].mode = Tr
  /\ loggers[2].fd.pos = Len(fs[TheFile].data)

(***************************************************************************)
(* C9 as amended: a file section whose mode option is missing or is none   *)
(* of "trace", "t", "one-time", "o" fails in handle_file with ConfigError  *)
(* before any FileSyslogger is constructed, so that under run_config no    *)
(* FileSyslogger with an unrecognized mode exists and run() never raises   *)
(* its ArgumentError; "o"/"one-time" give mode 'o', "t"/"trace" mode 't'.  *)
(***************************************************************************)
RecognizedTokens == {TraceWord, Tr, OneTimeWord, Ot}

ModeRejected == pc = "raised" /\ err.at = "handle_file"

Units == {"y", "d", "h", "m", "s"}

TokenAtStart(s) ==
  \E k \in 1..(Len(s) - 1) :
    /\ \A i \in 1..k : s[i] \in Digits
    /\ s[k + 1] \in Units

C11_InvalidFormatRaises ==
  parsed.done =>
    /\ ts # <<>> /\ ~TokenAtStart(ts) => parsed.raised = "ArgumentError"
    /\ ts = <<>> => parsed.raised = "None" /\ parsed.val = 0

\* what the code does with such a string: no error, 0 seconds
C11_GarbageIsZero ==
  parsed.done /\ ts # <<>> /\ ~TokenAtStart(ts) =>
    parsed.raised = "None" /\ parsed.val = 0

(***************************************************************************)
(* C12: an interrupt that arrives while a run() is executing lets that     *)
(* run() finish before the loop stops: when the loop has stopped, every    *)
(* file a DirSyslogger forwarded has also been renamed, and no one-time    *)
(* FileSyslogger is left with lines forwarded and its mode not yet 'x'.    *)
(***************************************************************************)
ForwardedUnmarked ==
  {v \in visits : v.act = "forward" /\
                  ~\E w \in visits : w.file = v.file /\ w.act = "rename"}

HalfDone(i) ==
  /\ loggers[i].class = "FileSyslogger"
  /\ loggers[i].mode = Ot
  /\ loggers[i].fd.pos > 0

C12_RunCompletesBeforeStop ==
  pc = "exit" =>
    /\ ForwardedUnmarked = {}
    /\ \A i \in 1..Len(loggers) : ~HalfDone(i)

(***************************************************************************)
(* C13: the scheduler calls run() on the targets in the order in which     *)
(* they were registered, round after round: in each round every target is  *)
(* run exactly once, and the next target is not run before the run() of    *)
(* the one before it has returned.                                         *)
(***************************************************************************)
TargetPath(l) == IF l.class = "FileSyslogger" THEN l.file ELSE l.dir

Sat(n) == IF n > MaxCalls THEN MaxCalls ELSE n

\* the counts of run() calls when loggers[cur] is the next to be called
AtBoundary ==
  \A i \in 1..Len(loggers) :
    calls[i] = IF i < cur THEN Sat(calls[cur] + 1) ELSE calls[cur]

\* the counts of run() calls while loggers[cur] is being run
InRun ==
  \A i \in 1..Len(loggers) :
    IF i <= cur THEN calls[i] = calls[cur] ELSE calls[cur] = Sat(calls[i] + 1)

C13_Rounds ==
  /\ \A i \in 1..Len(loggers) : TargetPath(loggers[i]) = conf[i].path
  /\ pc = "loop" => AtBoundary
  /\ pc \in {"log_file", "process_dir", "rename"} => InRun
  /\ pc \in {"exit", "raised"} /\ Configured => AtBoundary \/ InRun

C13_OneAtATime ==
  /\ calls' # calls /\ pc # "config" =>
       /\ pc = "loop"
       /\ \A i \in 1..Len(loggers) : i # cur => calls'[i] = calls[i]
  /\ cur' # cur =>
       /\ pc \in {"loop", "log_file", "process_dir"}
       /\ pc' = "loop"
       /\ cur' = (cur % Len(loggers)) + 1

C13_RegistrationOrder == []C13_Rounds /\ [][C13_OneAtATime]_vars

C13_Witness ==
  /\ pc = "loop"
  /\ cur = 1
  /\ Len(loggers) = 2
  /\ loggers[1].class # loggers[2].class
  /\ calls[1] >= 2
  /\ calls[2] >= 2

(***************************************************************************)
(* C14: DirSyslogger.run() scans exactly when the target is not disabled   *)
(* and now - lastrun > the interval in seconds (strictly), and a run()     *)
(* that scans sets lastrun to now, so that two consecutive scans are more  *)
(* than the interval apart; a run() that does not scan changes neither     *)
(* lastrun nor the file system (nor sends anything).                       *)
(***************************************************************************)
IntervalSeconds(me) == timestring_to_seconds(me.interval)

DirRunStep ==
  /\ pc = "loop"
  /\ Len(loggers) > 0
  /\ loggers[cur].class = "DirSyslogger"
  /\ calls' # calls \/ scans' # scans \/ loggers' # loggers

GateOpen(me) ==
  me.sleeptime # -1 /\ clock - me.lastrun > IntervalSeconds(me)

C14_Step ==
  DirRunStep =>
    LET me == loggers[cur] IN
    /\ scans' = scans + 1 <=> GateOpen(me)
    /\ GateOpen(me) => loggers'[cur].lastrun = clock
    /\ ~GateOpen(me) =>
         /\ loggers'[cur].lastrun = me.lastrun
         /\ fs' = fs
         /\ sink' = sink
         /\ scans' = scans

C14_ScanGate == [][C14_Step]_vars

C14_Witness ==
  /\ pc = "process_dir"
  /\ scans = 2
  /\ IntervalSeconds(loggers[cur]) = 1
  /\ loggers[cur].lastrun = clock
  /\ clock = 4

(***************************************************************************)
(* C15: as long as nothing but the program changes the directory, a        *)
(* DirSyslogger forwards each file at most once, however many scans it     *)
(* makes: a file that was forwarded and renamed to `_` + its name is       *)
(* neither forwarded nor renamed by a later scan, and no name beginning    *)
(* with `__` is ever produced.                                             *)
(***************************************************************************)
TimesSent(id) == Len(SelectSeq(sink, LAMBDA e : HasIdent(id, e)))

\* the lines of a log file of the directory as the applications wrote it
LinesOf(text) == Len(readlines(text, 0))

C15_Once ==
  /\ created = 0 =>
       \A n \in Names : TimesSent(fullpath_of(TheDir, n)) <= LinesOf(LogText)
  /\ \A i \in 1..Len(sink) : ~Marked(basename(sink[i].ident))
  /\ \A p \in DOMAIN fs : ~startswith(basename(p), <<"_", "_">>)

C15_RenamesUnmarkedOnly ==
  ScanStep =>
    \A p \in DOMAIN fs' \ DOMAIN fs :
      \E q \in DOMAIN fs : ~Marked(basename(q)) /\ p = newname_of(q)

C15_AtMostOnce == []C15_Once /\ [][C15_RenamesUnmarkedOnly]_vars

\* a second scan has gone over the file that the first one marked
C15_Witness ==
  /\ scans = 2
  /\ created = 0
  /\ vanished = 0
  /\ pc = "process_dir"
  /\ \E v \in visits : v.file = MarkedALog /\ v.act \in {"keep", "remove"}
  /\ TimesSent(fullpath_of(TheDir, ALog)) = 1

(***************************************************************************)
(* C16: run() of a FileSyslogger in mode 'x' (one-time logging done) does  *)
(* nothing at all: it sends no line, leaves the mode and the cursor as     *)
(* they are, and changes nothing of the process-wide syslog connection,    *)
(* in particular not the ident it is opened with.                          *)
(***************************************************************************)
\* a step of run() of the FileSyslogger in mode 'x' whose turn it is
DoneRunStep ==
  /\ pc = "loop"
  /\ Len(loggers) > 0
  /\ loggers[cur].class = "FileSyslogger"
  /\ loggers[cur].mode = Dn
  /\ pc' # "exit"
  /\ cur' # cur \/ calls' # calls \/ ident' # ident \/ pc' # pc

C16_LeavesAll ==
  DoneRunStep =>
    /\ pc' = "loop"
    /\ sink' = sink
    /\ loggers' = loggers
    /\ fs' = fs
    /\ ident' = ident

C16_PureNoOp == [][C16_LeavesAll]_vars

\* as the code does it: the connection is opened anew under the target's
\* own path before the mode is looked at; nothing else changes
C16_LeavesAllButIdent ==
  DoneRunStep =>
    /\ pc' = "loop"
    /\ sink' = sink
    /\ loggers' = loggers
    /\ fs' = fs
    /\ ident' = loggers[cur].file

C16_ReopensOnly == [][C16_LeavesAllButIdent]_vars

\* the FileSyslogger in mode 'x' has had a run() after the DirSyslogger
\* last opened the connection under the path of one of its files
C16_Witness ==
  /\ pc = "loop"
  /\ Len(loggers) = 2
  /\ loggers[1].class = "FileSyslogger"
  /\ loggers[1].mode = Dn
  /\ cur = 2
  /\ calls[1] >= 2
  /\ ident = loggers[1].file
  /\ \E i \in 1..Len(sink) : sink[i].ident = fullpath_of(TheDir, ALog)

(***************************************************************************)
(* C17: a run() of a FileSyslogger forwards only what the file held up to  *)
(* the end-of-file position at the moment the call began, and then         *)
(* returns: data that a writer appends while the run() is going on is not  *)
(* forwarded by it, and the run() ends however long the writer goes on.    *)
(***************************************************************************)
C17_OnlyUpToStart ==
  pc = "log_file" => loggers[cur].fd.pos <= eof0

\* as the code does it: __log_file reads on until a readline finds nothing
\* more, whatever the file held when the call began
C17_ReadsOn ==
  pc = "log_file" /\ loggers' # loggers =>
    LET me == loggers[cur]
        size == Len(fs[me.fd.path].data)
    IN /\ me.fd.pos < size =>
            /\ pc' = "log_file"
            /\ loggers'[cur].fd.pos > me.fd.pos
            /\ loggers'[cur].fd.pos <= size
            /\ Len(sink') = Len(sink) + 1
       /\ me.fd.pos = size =>
            /\ pc' = "loop"
            /\ sink' = sink

C17_Returned ==
  pc = "loop" /\ calls # <<>> /\ calls[1] > 0 =>
    loggers[1].fd.pos >= eof0

C17_UntilNothingMore ==
  /\ [][C17_ReadsOn]_vars
  /\ []C17_Returned
  /\ (pc = "log_file") ~> (pc # "log_file")

\* a run() has returned after forwarding bytes written after it began
C17_Witness ==
  /\ pc = "loop"
  /\ Len(loggers) = 1
  /\ calls[1] = 1
  /\ loggers[1].fd.pos > eof0
  /\ loggers[1].fd.pos = Len(fs[TheFile].data)
  /\ SentUnder(TheFile, sink) = fs[TheFile].data

(***************************************************************************)
(* C18: a marked file goes from the directory during a scan only if it is  *)
(* older than the backlog at that scan: no step of a scan removes or       *)
(* overwrites a marked file that is within the retention window, not even  *)
(* when a file x is marked while a file _x already exists.                 *)
(***************************************************************************)
Retained(path) ==
  /\ dirname(path) = TheDir
  /\ isfile(fs, path)
  /\ Marked(basename(path))
  /\ ~(clock - fs[path].ctime > BacklogSeconds(loggers[cur]))

C18_RetainedStays ==
  ScanStep =>
    \A p \in DOMAIN fs : Retained(p) => exists(fs', p) /\ fs'[p] = fs[p]

C18_RetentionHonoured == [][C18_RetainedStays]_vars

(***************************************************************************)
(* C19: with several targets sharing the one syslog connection, every line *)
(* handed to syslog is sent under the ident that is the path of the file   *)
(* the line was read from, whatever the order in which the run() calls of  *)
(* FileSysloggers (tracing, or one-time and done) and of DirSysloggers     *)
(* (with their FileSysloggers made on the spot) follow one another.        *)
(***************************************************************************)
C19_IdentIsSource ==
  /\ \A i \in 1..Len(sink) : sink[i].ident = sink[i].from
  /\ pc = "log_file" => ident = loggers[cur].file

\* lines of the traced file and of a file of the directory have been sent,
\* and the FileSyslogger has had its next run() after the DirSyslogger
C19_Witness ==
  /\ \E i, j \in 1..Len(sink) :
       /\ i < j
       /\ sink[i].from = TheFile
       /\ sink[j].from = fullpath_of(TheDir, ALog)
  /\ Len(loggers) = 2
  /\ loggers[1].class = "FileSyslogger"
  /\ calls[1] >= 2
  /\ pc = "loop"
  /\ cur = 2
  /\ ident = TheFile

(***************************************************************************)
(* C20: with an interval above 0, as long as the clock goes on, the        *)
(* scheduler keeps looping and no run() fails, the DirSyslogger scans      *)
(* again and again, so that every unmarked non-directory file with a       *)
(* matching suffix that stays in the directory is in the end forwarded and *)
(* marked; with interval 0, a file that appears after the one scan is      *)
(* never forwarded.                                                        *)
(***************************************************************************)
\* n waits in the directory of a target with an interval above 0, and the
\* clock has not come so near its bound that no further scan can be due
Pending(n) ==
  /\ pc \in {"loop", "process_dir", "rename"}
  /\ IntervalSeconds(loggers[cur]) > 0
  /\ isfile(fs, fullpath_of(TheDir, n))
  /\ Matches(loggers[cur].filetypes, n)
  /\ loggers[cur].lastrun + IntervalSeconds(loggers[cur]) < MaxClock

ForwardedAndMarked(n) ==
  /\ ~exists(fs, fullpath_of(TheDir, n))
  /\ isfile(fs, newname_of(fullpath_of(TheDir, n)))
  /\ TimesSent(fullpath_of(TheDir, n)) >= 1

\* after the one scan of a target with interval 0 nothing is sent and the
\* files in the directory stay as they are
C20_Disabled ==
  (pc = "loop" /\ Len(loggers) > 0 /\ IntervalSeconds(loggers[cur]) = 0
     /\ scans >= 1) =>
    /\ sink' = sink
    /\ scans' = scans
    /\ \A p \in DOMAIN fs : exists(fs', p) /\ fs'[p] = fs[p]

C20_ScansForever ==
  /\ \A n \in NewLogs : Pending(n) ~> ForwardedAndMarked(n)
  /\ [][C20_Disabled]_vars

\* a log written after the first scan was forwarded and marked by the next
C20_Witness ==
  /\ scans = 2
  /\ created = 1
  /\ IntervalSeconds(loggers[cur]) = 1
  /\ ForwardedAndMarked(ALog)
  /\ fs[newname_of(fullpath_of(TheDir, ALog))].ctime = MaxClock
  /\ TimesSent(fullpath_of(TheDir, ALog)) = 1

\* a log written after the one scan of a target with interval 0 lies there
C20_WitnessZero ==
  /\ pc = "loop"
  /\ IntervalSeconds(loggers[cur]) = 0
  /\ scans = 1
  /\ created = 1
  /\ clock = MaxClock
  /\ isfile(fs, fullpath_of(TheDir, ALog))
  /\ TimesSent(fullpath_of(TheDir, ALog)) = 0

====
